---- MODULE Spec2Model ----
(***************************************************************************)
(* Model of whispper-api-express.                                          *)
(*                                                                         *)
(* Spec: the subtitle-burn pipeline, VideoService.generateVideoWithSubtitles *)
(* and its helpers (src/src/services/translation.service.ts, lines         *)
(* 372-525).  Several invocations of the async method run on one event     *)
(* loop.  Each action is the code that runs between two await points of    *)
(* one invocation, or one run of the external ffmpeg process.              *)
(*                                                                         *)
(* SpecPure: the library functions applied to one input each: time and     *)
(* colour formatting, the render command and how the shell splits it, the  *)
(* controller's choice of segments, and the segment generators; and one   *)
(* invocation of WhisperService.transcribeFile.                            *)
(*                                                                         *)
(* SpecTranslate: TranslationService.translateText (src/unnamed/part_000)  *)
(* with its three backends, called directly or by translateSegments.       *)
(*                                                                         *)
(* SpecController: the three handlers of TranscriptionController           *)
(* (src/unnamed/part_001) serving concurrent requests on one disk;         *)
(* FairSpecController adds that every pending callback eventually runs.    *)
(*                                                                         *)
(* Paths and strings are sequences of tokens; "/", ".", the quotes, the    *)
(* space and "&" are the tokens the path and shell operations look at.     *)
(* Times are whole milliseconds; where the code computes on doubles the    *)
(* model computes the double result in integers.                           *)
(***************************************************************************)
EXTENDS Integers, Sequences, FiniteSets, TLC

\* ------------------------------------------------------------------ bounds
NumRequests == 2   \* concurrent HTTP requests handled by the controller
NumCalls == 2      \* concurrent invocations of generateVideoWithSubtitles
MaxTime == 1       \* Date.now() ranges over 0..MaxTime
MaxMillis == 1100  \* formatSRTTime is applied to every time 0..MaxMillis ms
MaxFineDuration == 5000  \* every whole-millisecond duration up to this is tried
MaxFileSizeUnits == 140  \* audio files of 0..MaxFileSizeUnits times 128 KB

\* ------------------------------------------------------- program constants
SrtIdLen == 9      \* Math.random().toString(36).substr(2, 9)
OutIdLen == 8      \* Math.random().toString(36).substr(2, 8)
MinAudioSeconds == 1    \* Math.max(1, Math.min(duration, 600))
MaxAudioSeconds == 600  \* Math.max(1, Math.min(duration, 600))

Calls == 1..NumCalls
Requests == 1..NumRequests

DQ == "\""

\* ------------------------------------------------------------------ inputs
\* Video paths a caller can pass: two that differ only in the extension, and
\* one whose file name holds a double quote.
VideoPaths ==
  { <<"up", "/", "a", ".", "mp4">>,
    <<"up", "/", "a", ".", "avi">>,
    <<"up", "/", "b", DQ, "c">> }

\* Segment lists a caller can pass (start/end in milliseconds).  The
\* controller hands over whatever JSON.parse returned, so a list that is out
\* of order or has end <= start is a possible input.
SegmentLists ==
  { << [start |-> 0, end |-> 1500, text |-> "one"],
       [start |-> 1500, end |-> 3000, text |-> "two"] >>,
    << [start |-> 2000, end |-> 2000, text |-> "nil"],
       [start |-> 0, end |-> 1500, text |-> "one"] >> }

\* Values Math.random().toString(36) can have after the leading "0.": two
\* draws that agree on their first eight digits and differ in the ninth.
RandomDraws ==
  { <<"k", "3", "f", "9", "q", "0", "z", "m", "a">>,
    <<"k", "3", "f", "9", "q", "0", "z", "m", "b">> }

\* ------------------------------------------------------------ path library
Min(a, b) == IF a <= b THEN a ELSE b

\* String.prototype.substr(2, n) on "0.<digits>": the first n digits.
Substr(digits, n) == SubSeq(digits, 1, Min(n, Len(digits)))

\* Index of the last occurrence of token c in p, 0 when there is none.
LastIndexOf(p, c) ==
  LET hits == { k \in 1..Len(p) : p[k] = c }
  IN  IF hits = {} THEN 0 ELSE CHOOSE k \in hits : \A j \in hits : j <= k

\* Last path component (path.basename without the ext argument).
LastComponent(p) == SubSeq(p, LastIndexOf(p, "/") + 1, Len(p))

\* path.extname: from the last "." of the last component to the end; empty
\* when there is no "." or the "." is the component's first character.
extname(p) ==
  LET b == LastComponent(p)
      d == LastIndexOf(b, ".")
  IN  IF d <= 1 THEN << >> ELSE SubSeq(b, d, Len(b))

\* path.basename(p, ext): the last component with a trailing ext removed.
basename(p, ext) ==
  LET b == LastComponent(p)
      n == Len(b) - Len(ext)
  IN  IF Len(ext) > 0 /\ n > 0 /\ SubSeq(b, n + 1, Len(b)) = ext
      THEN SubSeq(b, 1, n)
      ELSE b

\* path.dirname: what precedes the last "/", "." when there is no "/".
dirname(p) ==
  LET s == LastIndexOf(p, "/")
  IN  IF s = 0 THEN <<".">>
      ELSE IF s = 1 THEN <<"/">>
      ELSE SubSeq(p, 1, s - 1)

\* path.join(dir, name) for a one-component name, normalised.
join(dir, name) ==
  IF dir = <<".">> THEN name
  ELSE IF dir = <<"/">> THEN <<"/">> \o name
  ELSE dir \o <<"/">> \o name

TempDir == <<"temp">>

\* ------------------------------------------------------ subtitle track builder
\* Times are whole milliseconds ms; the JavaScript number is the double
\* nearest to ms / 1000.  The operators below compute, in integers, what the
\* double arithmetic of formatSRTTime yields.

\* 2^k modulo n.
RECURSIVE Pow2Mod(_, _)
Pow2Mod(k, n) == IF k = 0 THEN 1 % n ELSE (2 * Pow2Mod(k - 1, n)) % n

\* 2^k for small k.
RECURSIVE Pow2(_)
Pow2(k) == IF k = 0 THEN 1 ELSE 2 * Pow2(k - 1)

\* floor(log2(n)) for n >= 1.
RECURSIVE Log2Floor(_)
Log2Floor(n) == IF n < 2 THEN 0 ELSE 1 + Log2Floor(n \div 2)

\* The binary exponent e of ms / 1000: 2^e <= ms / 1000 < 2^(e+1), ms >= 1.
RECURSIVE SecondsExponentBelow(_, _)
SecondsExponentBelow(ms, e) ==
  IF ms * Pow2(-e) >= 1000 THEN e ELSE SecondsExponentBelow(ms, e - 1)

SecondsExponent(ms) ==
  IF ms >= 1000 THEN Log2Floor(ms \div 1000) ELSE SecondsExponentBelow(ms, -1)

\* 1000 * (double(ms / 1000) - ms / 1000), in units of 2^-(52 - e): the
\* rounding error of the decimal literal, round-to-nearest-even on a 53-bit
\* significand.  With N = ms * 2^(52 - e) the significand is N / 1000 rounded.
LiteralError(ms) ==
  LET s     == 52 - SecondsExponent(ms)
      n2    == ((ms % 2000) * Pow2Mod(s, 2000)) % 2000
      r     == n2 % 1000
      qOdd  == (n2 - r) \div 1000 = 1
      up    == 2 * r > 1000 \/ (2 * r = 1000 /\ qOdd)
  IN  IF up THEN 1000 - r ELSE 0 - r

\* Math.floor((seconds % 1) * 1000).  seconds % 1 is exact; the product
\* m + error is rounded to the nearest double, which lies below m exactly when
\* the error is negative and exceeds half the spacing of the doubles below m.
FloorMillis(ms) ==
  LET m == ms % 1000
  IN  IF m = 0 THEN 0
      ELSE LET err == LiteralError(ms)
               e   == SecondsExponent(ms)
               eM  == IF Pow2(Log2Floor(m)) = m THEN Log2Floor(m) - 1 ELSE Log2Floor(m)
               k   == 1 + e - eM
               below == IF k >= 0 THEN (0 - err) * Pow2(Min(k, 12)) > 1
                        ELSE (0 - err) > Pow2(0 - k)
           IN  IF err < 0 /\ below THEN m - 1 ELSE m

\* Number.prototype.toString() of a non-negative integer: its decimal digits.
Digit(d) == <<"0", "1", "2", "3", "4", "5", "6", "7", "8", "9">>[d + 1]

RECURSIVE toDigits(_)
toDigits(n) == IF n < 10 THEN <<Digit(n)>> ELSE toDigits(n \div 10) \o <<Digit(n % 10)>>

\* String.prototype.padStart(width, '0')
RECURSIVE padStart(_, _)
padStart(str, width) == IF Len(str) >= width THEN str ELSE padStart(<<"0">> \o str, width)

\* formatSRTTime(seconds), seconds = ms / 1000: the characters HH:MM:SS,mmm.
formatSRTTime(ms) ==
  LET hours        == ms \div 3600000
      minutes      == (ms % 3600000) \div 60000
      secs         == (ms % 60000) \div 1000
      milliseconds == FloorMillis(ms)
  IN  padStart(toDigits(hours), 2) \o <<":">> \o padStart(toDigits(minutes), 2)
        \o <<":">> \o padStart(toDigits(secs), 2) \o <<",">>
        \o padStart(toDigits(milliseconds), 3)

\* The value of a digit string.
RECURSIVE DigitsValue(_)
DigitsValue(str) ==
  IF Len(str) = 0 THEN 0
  ELSE 10 * DigitsValue(SubSeq(str, 1, Len(str) - 1))
       + (CHOOSE d \in 0..9 : Digit(d) = str[Len(str)])

\* The milliseconds a formatted time HH:MM:SS,mmm denotes.
SRTTimeMillis(t) ==
  LET c2 == LastIndexOf(t, ":")
      c1 == LastIndexOf(SubSeq(t, 1, c2 - 1), ":")
      k  == LastIndexOf(t, ",")
  IN  DigitsValue(SubSeq(t, 1, c1 - 1)) * 3600000
      + DigitsValue(SubSeq(t, c1 + 1, c2 - 1)) * 60000
      + DigitsValue(SubSeq(t, c2 + 1, k - 1)) * 1000
      + DigitsValue(SubSeq(t, k + 1, Len(t)))

\* Variant: the cues are numbered from 0, as the array indexes are.
srtContentFromZero(segs) ==
  [ index \in 1..Len(segs) |->
      [ index     |-> index - 1,
        startTime |-> formatSRTTime(segs[index].start),
        endTime   |-> formatSRTTime(segs[index].end),
        text      |-> segs[index].text ] ]

\* segments.map(...) of generateSRTFile: one cue per segment, in input order,
\* numbered index + 1.
srtContent(segs) ==
  [ index \in 1..Len(segs) |->
      [ index     |-> index,
        startTime |-> formatSRTTime(segs[index].start),
        endTime   |-> formatSRTTime(segs[index].end),
        text      |-> segs[index].text ] ]

\* path.join('temp', `subtitles_${Date.now()}_${random}.srt`)
srtPathFor(t, draw) ==
  join(TempDir, <<"subtitles_", ToString(t), "_">> \o Substr(draw, SrtIdLen) \o <<".", "srt">>)

\* ------------------------------------------------------------- render invoker
\* Variant: only the extension is replaced.
outputPathByExtension(inputPath, t, draw) ==
  LET ext  == extname(inputPath)
      base == basename(inputPath, ext)
      dir  == dirname(inputPath)
  IN  join(dir, base \o <<".", "mp4">>)

generateOutputPath(inputPath, t, draw) ==
  LET ext  == extname(inputPath)
      base == basename(inputPath, ext)
      dir  == dirname(inputPath)
  IN  join(dir, base \o <<"_subtitled_", ToString(t), "_">>
                     \o Substr(draw, OutIdLen) \o <<".", "mp4">>)

HexDigits == <<"0", "1", "2", "3", "4", "5", "6", "7", "8", "9",
               "a", "b", "c", "d", "e", "f">>
UpperHexDigits == <<"0", "1", "2", "3", "4", "5", "6", "7", "8", "9",
                    "A", "B", "C", "D", "E", "F">>

IsHex(c) == \E k \in 1..16 : HexDigits[k] = c \/ UpperHexDigits[k] = c
HexVal(c) == (CHOOSE k \in 1..16 : HexDigits[k] = c \/ UpperHexDigits[k] = c) - 1

\* parseInt(s, 16) on at most two characters; -1 stands for NaN.
parseInt16(s) ==
  IF Len(s) = 0 \/ ~IsHex(s[1]) THEN -1
  ELSE IF Len(s) = 1 \/ ~IsHex(s[2]) THEN HexVal(s[1])
  ELSE 16 * HexVal(s[1]) + HexVal(s[2])

\* n.toString(16).padStart(2, '0')
toHex2(n) ==
  IF n < 0 THEN <<"N", "a", "N">>
  ELSE IF n < 16 THEN <<"0", HexDigits[n + 1]>>
  ELSE <<HexDigits[(n \div 16) + 1], HexDigits[(n % 16) + 1]>>

\* hex.replace('#', ''): the first '#' removed.
StripHash(hex) ==
  LET h == { k \in 1..Len(hex) : hex[k] = "#" }
  IN  IF h = {} THEN hex
      ELSE LET f == CHOOSE k \in h : \A j \in h : k <= j
           IN  SubSeq(hex, 1, f - 1) \o SubSeq(hex, f + 1, Len(hex))

\* String.prototype.substr(from, 2), from counted from 0.
Substr2(s, from) == SubSeq(s, from + 1, Min(from + 2, Len(s)))

\* Variant: the channels are written in the order they are read.
hexToRGB(hex) ==
  LET h == StripHash(hex)
      r == parseInt16(Substr2(h, 0))
      g == parseInt16(Substr2(h, 2))
      b == parseInt16(Substr2(h, 4))
  IN  <<"&H">> \o toHex2(r) \o toHex2(g) \o toHex2(b) \o <<"&">>

hexToBGR(hex) ==
  LET h == StripHash(hex)
      r == parseInt16(Substr2(h, 0))
      g == parseInt16(Substr2(h, 2))
      b == parseInt16(Substr2(h, 4))
  IN  <<"&H">> \o toHex2(b) \o toHex2(g) \o toHex2(r) \o <<"&">>

\* The style the /transcribe handler passes.
TranscribeStyle ==
  [ fontName        |-> "Arial",
    fontSize        |-> 20,
    fontColor       |-> <<"#", "f", "f", "f", "f", "f", "f">>,
    backgroundColor |-> <<"#", "0", "0", "0", "0", "0", "0", "c", "c">>,
    borderWidth     |-> 1,
    borderColor     |-> <<"#", "0", "0", "0", "0", "0", "0">>,
    marginVertical  |-> 50 ]

\* `"${path}"`: the only escaping buildFFmpegCommand applies.
Quoted(p) == <<DQ>> \o p \o <<DQ>>

\* buildFFmpegCommand: the words joined by ' ', each word a token sequence.
buildFFmpegCommand(inputPath, srtPath, outputPath, style) ==
  LET subtitleFilter ==
        <<"subtitles=">> \o Quoted(srtPath)
          \o <<":force_style=", "'", "FontName=", style.fontName,
               ",FontSize=", ToString(style.fontSize), ",PrimaryColour=">>
          \o hexToBGR(style.fontColor) \o <<",BackColour=">>
          \o hexToBGR(style.backgroundColor)
          \o <<",BorderWidth=", ToString(style.borderWidth), ",OutlineColour=">>
          \o hexToBGR(style.borderColor)
          \o <<",MarginV=", ToString(style.marginVertical), "'">>
  IN  << <<"ffmpeg">>,
         <<"-i">>, Quoted(inputPath),
         <<"-vf">>, Quoted(subtitleFilter),
         <<"-c:a">>, <<"copy">>,
         <<"-c:v">>, <<"libx264">>,
         <<"-preset">>, <<"medium">>,
         <<"-crf">>, <<"23">>,
         <<"-y">>,
         Quoted(outputPath) >>

\* ---------------------------------------------------------------------- state
VARIABLES
  now,             \* Date.now()
  tempDirExists,   \* the directory 'temp' exists
  files,           \* the file system: path |-> content, for the paths that exist
  pc,              \* where each invocation stands
  inputVideoPath,  \* argument inputVideoPath of each invocation
  segments,        \* argument segments of each invocation
  srtPath,         \* const srtPath, << >> while unassigned
  outputPath,      \* const outputPath, << >> while unassigned
  ffmpegCommand,   \* const ffmpegCommand, << >> while unassigned
  execError,       \* what the render process ended with: "none", "ok", "error"
  stderr,          \* what the render process wrote to its standard error
  result,          \* the VideoResult the promise resolved with
  log,             \* the steps each invocation has taken, in order
  call,            \* the last application of a library function: its input and output
  tr,              \* the translateText invocation: position, input, backend calls
  http,            \* the controller's requests: handler, position, responses sent
  disk             \* the file system the controller sees: path |-> content

vars == << now, tempDirExists, files, pc, inputVideoPath, segments, srtPath,
           outputPath, ffmpegCommand, execError, stderr, result, log, call, tr,
           http, disk >>

\* What the subtitle pipeline never touches.
ctlVars  == << http, disk >>
libVars  == << call, tr, ctlVars >>

\* What the library functions and translateText never touch.
pipelineVars == << now, tempDirExists, files, pc, inputVideoPath, segments, srtPath,
                   outputPath, ffmpegCommand, execError, stderr, result, log >>

envVars  == << now, tempDirExists, files >>
argVars  == << inputVideoPath, segments >>

NoPath == << >>
NoCall == [fn |-> "none"]
NoTranslation == [pc |-> "idle"]
NoRequest == [pc |-> "idle"]
NoResult == [success |-> FALSE, message |-> << >>, outputPath |-> NoPath]

\* -------------------------------------------------------------- file system
existsSync(fs, p) == p \in DOMAIN fs

\* fs.writeFileSync(p, content) when it succeeds: creates or replaces p.
writeFile(fs, p, content) ==
  [ q \in DOMAIN fs \cup {p} |-> IF q = p THEN content ELSE fs[q] ]

\* fs.unlinkSync(p) when it succeeds.
removeFile(fs, p) == [ q \in DOMAIN fs \ {p} |-> fs[q] ]

\* Outcomes of fs.unlinkSync(p): it throws ENOENT when p does not exist;
\* on an existing file it removes it or throws EPERM and leaves it.
unlinkSync(fs, p) ==
  IF ~existsSync(fs, p)
  THEN { [threw |-> TRUE, error |-> <<"ENOENT: no such file or directory, unlink">>, fs |-> fs] }
  ELSE { [threw |-> FALSE, error |-> << >>, fs |-> removeFile(fs, p)],
         [threw |-> TRUE, error |-> <<"EPERM: operation not permitted, unlink">>, fs |-> fs] }

SrtFile(segs) == [kind |-> "srt", size |-> 1, cues |-> srtContent(segs)]
VideoFile(size, cues) == [kind |-> "video", size |-> size, cues |-> cues]

\* ------------------------------------------------------------ result values
\* lines 387-390
ToolNotFoundResult ==
  [ success |-> FALSE,
    message |-> <<"FFmpeg não encontrado. Instale o FFmpeg para continuar.">>,
    outputPath |-> NoPath ]

\* Variant: the missing output file is not told apart from a rendered one.
OutputMissingAsSuccess ==
  [ success |-> TRUE,
    message |-> <<"Vídeo com legendas gerado com sucesso">>,
    outputPath |-> NoPath ]

\* lines 415-418
OutputMissingResult ==
  [ success |-> FALSE,
    message |-> <<"Arquivo de saída não foi criado">>,
    outputPath |-> NoPath ]

\* Variant: the success result leaves the output path out.
SuccessResultWithoutPath(out) ==
  [ success |-> TRUE,
    message |-> <<"Vídeo com legendas gerado com sucesso">>,
    outputPath |-> NoPath ]

\* lines 427-431
SuccessResult(out) ==
  [ success |-> TRUE,
    message |-> <<"Vídeo com legendas gerado com sucesso">>,
    outputPath |-> out ]

\* Variant: the catch block drops the error's own message.
CatchResultWithoutCause(errorMessage) ==
  [ success |-> FALSE,
    message |-> <<"Erro na geração: ">>,
    outputPath |-> NoPath ]

\* lines 435-438: `Erro na geração: ${error.message}`
CatchResult(errorMessage) ==
  [ success |-> FALSE,
    message |-> <<"Erro na geração: ">> \o errorMessage,
    outputPath |-> NoPath ]

\* command.join(' '): the words of the command as one string.
RECURSIVE JoinWords(_)
JoinWords(words) ==
  IF Len(words) = 0 THEN << >>
  ELSE IF Len(words) = 1 THEN words[1]
  ELSE words[1] \o <<" ">> \o JoinWords(Tail(words))

\* How /bin/sh, which child_process.exec hands the command string to, splits
\* it, character by character: a double quote or a single quote opens and
\* closes a quoted stretch, a space outside quotes ends a word, an & outside
\* quotes ends a command.  While reading, mode is "none", "dq" or "sq"; word is the word being read
\* (started tells the empty word from no word); words are the words of the
\* command being read; commands are the commands already ended.
ShellStart ==
  [mode |-> "none", word |-> << >>, started |-> FALSE, words |-> << >>, commands |-> << >>]

EndWord(st) == IF st.started THEN Append(st.words, st.word) ELSE st.words

EndCommand(st) ==
  IF EndWord(st) = << >> THEN st.commands ELSE Append(st.commands, EndWord(st))

\* One character read.
ShellStep(st, c) ==
  IF st.mode = "dq"
  THEN IF c = DQ THEN [st EXCEPT !.mode = "none"]
       ELSE [st EXCEPT !.word = Append(@, c)]
  ELSE IF st.mode = "sq"
  THEN IF c = "'" THEN [st EXCEPT !.mode = "none"]
       ELSE [st EXCEPT !.word = Append(@, c)]
  ELSE IF c = DQ THEN [st EXCEPT !.mode = "dq", !.started = TRUE]
  ELSE IF c = "'" THEN [st EXCEPT !.mode = "sq", !.started = TRUE]
  ELSE IF c = " "
  THEN [st EXCEPT !.word = << >>, !.started = FALSE, !.words = EndWord(st)]
  ELSE IF c = "&"
  THEN [st EXCEPT !.word = << >>, !.started = FALSE, !.words = << >>,
                  !.commands = EndCommand(st)]
  ELSE IF c = "&H"
  THEN [st EXCEPT !.word = <<"H">>, !.started = TRUE, !.words = << >>,
                  !.commands = EndCommand(st)]
  ELSE [st EXCEPT !.word = Append(@, c), !.started = TRUE]

\* The commands, each a list of words, the shell runs once it has read the
\* whole string; with a quote left open it runs none.
ShellCommands(st) == [unterminated |-> st.mode # "none", commands |-> EndCommand(st)]

\* The message of the error child_process.exec rejects with:
\* `Command failed: ${cmd}\n${stderr}`.
ExecErrorMessage(cmd, err) == <<"Command failed: ">> \o JoinWords(cmd) \o <<"\n">> \o err

\* What a render process may leave on its standard error.
StderrTexts == { << >>, <<"Error while filtering">> }

\* ------------------------------------------------------ leaving the method
\* `return r`: the promise of invocation i resolves with r.
Return(i, r) ==
  /\ pc' = [pc EXCEPT ![i] = "returned"]
  /\ result' = [result EXCEPT ![i] = r]

\* Variant: the exception escapes and the promise rejects.
ThrowUncaught(i, errorMessage) ==
  /\ pc' = [pc EXCEPT ![i] = "rejected"]
  /\ UNCHANGED result

\* An exception raised inside the outer try block: the catch block returns.
Throw(i, errorMessage) == Return(i, CatchResult(errorMessage))

Logged(i, events) == log' = [log EXCEPT ![i] = log[i] \o events]

\* ------------------------------------------------------------------- Init
Init ==
  /\ now = 0
  /\ tempDirExists = FALSE
  /\ files = [ p \in VideoPaths |-> VideoFile(1, << >>) ]
  /\ pc = [i \in Calls |-> "idle"]
  /\ inputVideoPath = [i \in Calls |-> NoPath]
  /\ segments = [i \in Calls |-> << >>]
  /\ srtPath = [i \in Calls |-> NoPath]
  /\ outputPath = [i \in Calls |-> NoPath]
  /\ ffmpegCommand = [i \in Calls |-> << >>]
  /\ execError = [i \in Calls |-> "none"]
  /\ result = [i \in Calls |-> NoResult]
  /\ log = [i \in Calls |-> << >>]
  /\ stderr = [i \in Calls |-> << >>]
  /\ call = NoCall
  /\ tr = NoTranslation
  /\ http = [r \in Requests |-> NoRequest]
  /\ disk = << >>

\* ---------------------------------------------------------------- actions
\* The clock advances.
Tick ==
  /\ now < MaxTime
  /\ now' = now + 1
  /\ UNCHANGED << tempDirExists, files, pc, inputVideoPath, segments, srtPath,
                  outputPath, ffmpegCommand, execError, stderr, result, log,
                  libVars >>

\* A caller invokes generateVideoWithSubtitles(video, segs, style); the method
\* runs up to `await execAsync('ffmpeg -version')` (lines 379-384).
Call(i) ==
  /\ pc[i] = "idle"
  /\ \E video \in VideoPaths, segs \in SegmentLists :
       /\ inputVideoPath' = [inputVideoPath EXCEPT ![i] = video]
       /\ segments' = [segments EXCEPT ![i] = segs]
  /\ pc' = [pc EXCEPT ![i] = "probing"]
  /\ Logged(i, <<"probe">>)
  /\ UNCHANGED << envVars, srtPath, outputPath, ffmpegCommand, execError, stderr, result,
                  libVars >>

\* Variant: the inner catch swallows the probe's error and the method goes on
\* to write the subtitle file.
ProbeFailIgnored(i) ==
  /\ pc[i] = "probing"
  /\ files' = writeFile(files, srtPathFor(now, CHOOSE d \in RandomDraws : TRUE),
                        SrtFile(segments[i]))
  /\ srtPath' = [srtPath EXCEPT ![i] = srtPathFor(now, CHOOSE d \in RandomDraws : TRUE)]
  /\ tempDirExists' = TRUE
  /\ pc' = [pc EXCEPT ![i] = "srtWritten"]
  /\ Logged(i, <<"probeFailed", "write", "written">>)
  /\ UNCHANGED << now, argVars, outputPath, ffmpegCommand, execError, stderr, result,
                  libVars >>

\* The probe fails: the inner catch returns (lines 386-391).
ProbeFail(i) ==
  /\ pc[i] = "probing"
  /\ Return(i, ToolNotFoundResult)
  /\ Logged(i, <<"probeFailed">>)
  /\ UNCHANGED << envVars, argVars, srtPath, outputPath, ffmpegCommand, execError, stderr,
                  libVars >>

\* The probe succeeds and generateSRTFile runs (lines 385, 394, 442-465).
ProbeOk(i) ==
  /\ pc[i] = "probing"
  /\ \/ \* fs.mkdirSync throws
        /\ ~tempDirExists
        /\ Throw(i, <<"EACCES: permission denied, mkdir">>)
        /\ Logged(i, <<"write", "mkdirFailed">>)
        /\ UNCHANGED << envVars, srtPath >>
     \/ \* fs.writeFileSync throws
        /\ tempDirExists' = TRUE
        /\ Throw(i, <<"EACCES: permission denied, open">>)
        /\ Logged(i, <<"write", "writeFailed">>)
        /\ UNCHANGED << now, files, srtPath >>
     \/ \* the file is written and its path returned
        /\ \E draw \in RandomDraws :
             LET p == srtPathFor(now, draw)
             IN  /\ files' = writeFile(files, p, SrtFile(segments[i]))
                 /\ srtPath' = [srtPath EXCEPT ![i] = p]
        /\ tempDirExists' = TRUE
        /\ pc' = [pc EXCEPT ![i] = "srtWritten"]
        /\ Logged(i, <<"write", "written">>)
        /\ UNCHANGED << now, result >>
  /\ UNCHANGED << argVars, outputPath, ffmpegCommand, execError, stderr, libVars >>

\* After `await this.generateSRTFile(...)`: derive the output path, build the
\* command and start the render process (lines 395-404).
StartRender(i) ==
  /\ pc[i] = "srtWritten"
  /\ \E draw \in RandomDraws :
       LET out == generateOutputPath(inputVideoPath[i], now, draw)
       IN  /\ outputPath' = [outputPath EXCEPT ![i] = out]
           /\ ffmpegCommand' = [ffmpegCommand EXCEPT ![i] =
                buildFFmpegCommand(inputVideoPath[i], srtPath[i], out, TranscribeStyle)]
  /\ pc' = [pc EXCEPT ![i] = "rendering"]
  /\ Logged(i, <<"render">>)
  /\ UNCHANGED << envVars, argVars, srtPath, execError, stderr, result, libVars >>

\* The external ffmpeg process of invocation i runs to its end.  It fails
\* when the video or the subtitle file is missing; otherwise it exits with
\* or without an error, having written no output, an empty output or a
\* complete one (with -y an existing file is replaced).  A process that
\* fails says why on its standard error; one that succeeds may write there too.  A video path that
\* holds a double quote closes the quoted word early, so the shell runs some
\* other word list; its outcomes are taken from the same set.
FFmpegRun(i) ==
  /\ pc[i] = "rendering"
  /\ \/ /\ ~existsSync(files, inputVideoPath[i]) \/ ~existsSync(files, srtPath[i])
        /\ execError' = [execError EXCEPT ![i] = "error"]
        /\ stderr' = [stderr EXCEPT ![i] = <<"No such file or directory">>]
        /\ UNCHANGED files
     \/ /\ existsSync(files, inputVideoPath[i]) /\ existsSync(files, srtPath[i])
        /\ \E status \in {"ok", "error"}, size \in {-1, 0, 1}, err \in StderrTexts :
             /\ status = "error" => err # << >>
             /\ execError' = [execError EXCEPT ![i] = status]
             /\ stderr' = [stderr EXCEPT ![i] = err]
             /\ files' = IF size = -1 THEN files
                         ELSE writeFile(files, outputPath[i],
                                        VideoFile(size, files[srtPath[i]].cues))
  /\ pc' = [pc EXCEPT ![i] = "exited"]
  /\ UNCHANGED << now, tempDirExists, argVars, srtPath, outputPath,
                  ffmpegCommand, result, log, libVars >>

\* After `await execAsync(ffmpegCommand)` (lines 404-439).
RenderDone(i) ==
  /\ pc[i] = "exited"
  /\ \/ \* execAsync rejected: the outer catch returns
        /\ execError[i] = "error"
        /\ Throw(i, ExecErrorMessage(ffmpegCommand[i], stderr[i]))
        /\ Logged(i, <<"renderFailed">>)
        /\ UNCHANGED files
     \/ \* the output file is missing (lines 412-419)
        /\ execError[i] = "ok"
        /\ ~existsSync(files, outputPath[i])
        /\ \E u \in unlinkSync(files, srtPath[i]) :
             /\ files' = u.fs
             /\ IF u.threw
                THEN Throw(i, u.error) /\ Logged(i, <<"outputMissing", "unlinkFailed">>)
                ELSE Return(i, OutputMissingResult) /\ Logged(i, <<"outputMissing", "unlink">>)
     \/ \* the output file exists (lines 421-431)
        /\ execError[i] = "ok"
        /\ existsSync(files, outputPath[i])
        /\ \E u \in unlinkSync(files, srtPath[i]) :
             /\ files' = u.fs
             /\ IF u.threw
                THEN Throw(i, u.error) /\ Logged(i, <<"outputFound", "unlinkFailed">>)
                ELSE Return(i, SuccessResult(outputPath[i])) /\ Logged(i, <<"outputFound", "unlink">>)
  /\ UNCHANGED << now, tempDirExists, argVars, srtPath, outputPath,
                  ffmpegCommand, execError, stderr, libVars >>

Next ==
  \/ Tick
  \/ \E i \in Calls : Call(i)
  \/ \E i \in Calls : ProbeFail(i)
  \/ \E i \in Calls : ProbeOk(i)
  \/ \E i \in Calls : StartRender(i)
  \/ \E i \in Calls : FFmpegRun(i)
  \/ \E i \in Calls : RenderDone(i)

Spec == Init /\ [][Next]_vars

\* ------------------------------------------------- library functions applied
\* Each behaviour of SpecPure applies one library function to one input.
\* Times formatSRTTime is applied to, in milliseconds: every time up to
\* MaxMillis, and 59.999 s, 65.5 s and 3661.001 s.
TimeInputs == 0..MaxMillis \cup {59999, 65500, 3661001}

\* this.formatSRTTime(seconds) with seconds = ms / 1000.
FormatTime ==
  /\ call = NoCall
  /\ \E ms \in TimeInputs :
       call' = [fn |-> "formatSRTTime", arg |-> ms, out |-> formatSRTTime(ms)]
  /\ UNCHANGED << pipelineVars, tr, ctlVars >>

\* Two-digit channel values a colour is made of, in either letter case.
ChannelPairs == { <<"1", "1">>, <<"2", "2">>, <<"3", "3">>, <<"0", "a">>, <<"F", "e">> }

\* Colours a style can carry: RRGGBB or RRGGBBAA, with or without '#'.
HexInputs ==
  { hash \o rr \o gg \o bb \o aa :
      hash \in { << >>, <<"#">> }, rr \in ChannelPairs, gg \in ChannelPairs,
      bb \in ChannelPairs, aa \in { << >>, <<"c", "c">>, <<"0", "0">> } }

\* this.hexToBGR(hex)
ConvertColour ==
  /\ call = NoCall
  /\ \E hex \in HexInputs :
       call' = [fn |-> "hexToBGR", arg |-> hex, out |-> hexToBGR(hex)]
  /\ UNCHANGED << pipelineVars, tr, ctlVars >>

\* ---- generateVideoWithTranslatedSubtitles: the segments handed to the pipeline
\* Segment lists a request can carry.
SuppliedLists ==
  { << >>,
    << [start |-> 500, end |-> 2000, text |-> "só"] >>,
    << [start |-> 4000, end |-> 5000, text |-> "b"],
       [start |-> 0, end |-> 1000, text |-> "a"] >> }

\* JSON.parse on the texts a form field can hold: a list, or no JSON at all.
JSONTexts == { "[]", "[s]", "[b,a]", "[s," }

JSONparse(text) ==
  IF text = "[]" THEN [threw |-> FALSE, value |-> << >>]
  ELSE IF text = "[s]"
    THEN [threw |-> FALSE, value |-> << [start |-> 500, end |-> 2000, text |-> "só"] >>]
  ELSE IF text = "[b,a]"
    THEN [threw |-> FALSE, value |-> << [start |-> 4000, end |-> 5000, text |-> "b"],
                                        [start |-> 0, end |-> 1000, text |-> "a"] >>]
  ELSE [threw |-> TRUE, value |-> << >>]

\* req.body.translatedSegments: absent, a string (multipart form field) or a
\* list (JSON body).
BodyFields ==
  { [kind |-> "absent", text |-> "", list |-> << >>] }
    \cup { [kind |-> "string", text |-> t, list |-> << >>] : t \in JSONTexts \cup {""} }
    \cup { [kind |-> "array", text |-> "", list |-> l] : l \in SuppliedLists }

\* Lines 220-224 of the handler.
MockSegments ==
  << [start |-> 0, end |-> 3000, text |-> "Este é um teste de legenda traduzida via Express"],
     [start |-> 3000, end |-> 6000, text |-> "Segunda parte do teste com Express e Multer"],
     [start |-> 6000, end |-> 9000, text |-> "Terceira e última parte do teste mock"] >>

\* Variant: the mock segments stand in only when nothing was parsed at all.
emptyListPassedOn(translatedSegments) == translatedSegments

\* Lines 218-225: an empty list is replaced by the mock segments.
orMockSegments(translatedSegments) ==
  IF Len(translatedSegments) = 0 THEN MockSegments ELSE translatedSegments

\* Lines 201-230: what the handler does with the field: answer 400, or invoke
\* the pipeline with a segment list.
selectSegments(field) ==
  LET truthy == field.kind = "array" \/ (field.kind = "string" /\ field.text # "")
      parsed == IF field.kind = "string" THEN JSONparse(field.text)
                ELSE [threw |-> FALSE, value |-> field.list]
  IN  IF ~truthy
      THEN [status |-> "invoked", segments |-> orMockSegments(<< >>)]
      ELSE IF parsed.threw
      THEN [status |-> "400", segments |-> << >>]
      ELSE [status |-> "invoked", segments |-> orMockSegments(parsed.value)]

SelectSegments ==
  /\ call = NoCall
  /\ \E field \in BodyFields :
       call' = [fn |-> "selectSegments", arg |-> field, out |-> selectSegments(field)]
  /\ UNCHANGED << pipelineVars, tr, ctlVars >>

\* ---- buildFFmpegCommand on the paths and styles the callers pass
\* The style the /generate-video handler passes.
TranslatedStyle ==
  [ fontName        |-> "Arial",
    fontSize        |-> 18,
    fontColor       |-> <<"#", "f", "f", "f", "f", "f", "f">>,
    backgroundColor |-> <<"#", "0", "0", "0", "0", "0", "0">>,
    borderWidth     |-> 1,
    borderColor     |-> <<"#", "0", "0", "0", "0", "0", "0">>,
    marginVertical  |-> 20 ]

Styles == { TranscribeStyle, TranslatedStyle }

\* this.buildFFmpegCommand(inputVideoPath, srtPath, outputPath, style) with
\* the paths generateVideoWithSubtitles derives (lines 394-400).
BuildCommand ==
  /\ call = NoCall
  /\ \E video \in VideoPaths, style \in Styles, t \in 0..MaxTime,
        d1 \in RandomDraws, d2 \in RandomDraws :
       LET srt == srtPathFor(t, d1)
           out == generateOutputPath(video, t, d2)
       IN  call' = [ fn |-> "buildFFmpegCommand",
                     arg |-> [inputPath |-> video, srtPath |-> srt,
                              outputPath |-> out, style |-> style],
                     out |-> JoinWords(buildFFmpegCommand(video, srt, out, style)),
                     read |-> 0, sh |-> ShellStart ]
  /\ UNCHANGED << pipelineVars, tr, ctlVars >>

\* exec hands the command string to the shell, which reads its next character.
ShellReads ==
  /\ call.fn = "buildFFmpegCommand"
  /\ call.read < Len(call.out)
  /\ call' = [call EXCEPT !.read = @ + 1, !.sh = ShellStep(@, call.out[call.read + 1])]
  /\ UNCHANGED << pipelineVars, tr, ctlVars >>

\* ---- the segment lists the services generate themselves
\* Durations are whole milliseconds.  Those tried are such that every start
\* and end simulateWhisperTranscription computes is a whole number of
\* milliseconds (an eighth of the duration is, where it is used):
\* every duration from the minimum up to MaxFineDuration, every whole
\* second of the clamped range, and 45.001 s.
Durations ==
  (MinAudioSeconds * 1000)..MaxFineDuration
    \cup { 1000 * sec : sec \in MinAudioSeconds..MaxAudioSeconds }
    \cup { 45001 }

Max(a, b) == IF a >= b THEN a ELSE b

\* Math.ceil(a / b) for positive b.
CeilDiv(a, b) == (a + b - 1) \div b

\* parseFloat(x.toFixed(2)) of x = ms / 1000, in milliseconds: the nearest
\* hundredth; halfway, toFixed goes by the exact value of the double, and
\* takes the larger when that is exactly halfway.
toFixed2(ms) ==
  LET r == ms % 10
  IN  IF r < 5 THEN ms - r
      ELSE IF r > 5 THEN ms - r + 10
      ELSE IF LiteralError(ms) < 0 THEN ms - r ELSE ms - r + 10

\* WhisperService.simulateWhisperTranscription (lines 705-730): start and end
\* of the segments for an audio of the given duration.
simulateWhisperTranscription(duration) ==
  LET segmentDuration == Max(2000, Min(5000, duration \div 8))
      numSegments == CeilDiv(duration, segmentDuration)
  IN  [ k \in 1..numSegments |->
          [ start |-> toFixed2((k - 1) * segmentDuration),
            end   |-> toFixed2(Min(k * segmentDuration, duration)) ] ]

\* WhisperService.generateFallbackSegments (lines 804-825)
generateFallbackSegments(duration) ==
  LET segmentDuration == Max(3000, duration \div 3)
  IN  [ k \in 1..3 |->
          [ start |-> toFixed2((k - 1) * segmentDuration),
            end   |-> toFixed2(Min(k * segmentDuration, duration)) ] ]

\* Math.round(a / b) for non-negative a: halves go up.
RoundDiv(a, b) == (2 * a + b) \div (2 * b)

\* TranslationService.transcribeAudio (lines 40-79) on a file of the given
\* size, in units of 128 KB.
transcribeAudio(sizeUnits) ==
  LET estimatedDuration == Max(9, Min(60, RoundDiv(sizeUnits, 2)))
      segmentDuration == 3
      numSegments == CeilDiv(estimatedDuration, segmentDuration)
  IN  [ k \in 1..numSegments |->
          [ start |-> 1000 * (k - 1) * segmentDuration,
            end   |-> 1000 * Min(k * segmentDuration, estimatedDuration) ] ]

SimulateWhisper ==
  /\ call = NoCall
  /\ \E duration \in Durations :
       call' = [ fn |-> "simulateWhisperTranscription", arg |-> duration,
                 out |-> simulateWhisperTranscription(duration) ]
  /\ UNCHANGED << pipelineVars, tr, ctlVars >>

\* Of the durations, those a third of which is a whole number of
\* milliseconds, or is below the three seconds the generator takes instead.
FallbackDurations == { d \in Durations : d < 9000 \/ d % 3 = 0 }

FallbackSegments ==
  /\ call = NoCall
  /\ \E duration \in FallbackDurations :
       call' = [ fn |-> "generateFallbackSegments", arg |-> duration,
                 out |-> generateFallbackSegments(duration) ]
  /\ UNCHANGED << pipelineVars, tr, ctlVars >>

TranscribeAudio ==
  /\ call = NoCall
  /\ \E sizeUnits \in 0..MaxFileSizeUnits :
       call' = [ fn |-> "transcribeAudio", arg |-> sizeUnits,
                 out |-> transcribeAudio(sizeUnits) ]
  /\ UNCHANGED << pipelineVars, tr, ctlVars >>

\* ---------------------------------------------------------- transcribeFile
\* WhisperService.transcribeFile (lines 574-615) with ensureAudioFormat,
\* extractAudioFromVideo, getAudioDuration and cleanupAudioFile.  One
\* invocation runs in `call`, which holds its own view of the file system.
AudioExtensions == { <<".", "wav">>, <<".", "mp3">>, <<".", "m4a">>,
                     <<".", "flac">>, <<".", "ogg">> }

AudioSuffix == <<"_audio", ".", "wav">>

\* String.prototype.includes.
includes(whole, part) ==
  \E k \in 0..(Len(whole) - Len(part)) : SubSeq(whole, k + 1, k + Len(part)) = part

\* Files the handler can be given: an upload stored by multer without
\* extension, a video, an audio file, an audio file whose own name ends in
\* _audio.wav, and a path where no file is.
TranscribePaths ==
  { <<"temp", "/", "u1">>,
    <<"up", "/", "a", ".", "mp4">>,
    <<"up", "/", "a", ".", "wav">>,
    <<"up", "/", "x", "_audio", ".", "wav">>,
    <<"up", "/", "gone", ".", "mp4">> }

AudioFile == [kind |-> "audio", size |-> 1, cues |-> << >>]

\* Lines 641-643: audioPath = join(dirname, `${basename}_audio.wav`).
extractedAudioPath(videoPath) ==
  join(dirname(videoPath), basename(videoPath, extname(videoPath)) \o AudioSuffix)

\* The file systems transcribeFile can start in: the file it is given exists
\* (except the one that is gone), and a file may already be where the audio
\* would be extracted to.
TranscribeFileSystems(filePath) ==
  LET given == IF filePath = <<"up", "/", "gone", ".", "mp4">>
               THEN << >>
               ELSE [ p \in {filePath} |-> VideoFile(1, << >>) ]
  IN  { given, writeFile(given, extractedAudioPath(filePath), AudioFile) }

\* ensureAudioFormat (lines 620-635): the file itself when its extension is
\* an audio extension, else what extractAudioFromVideo returns.
needsExtraction(filePath) == extname(filePath) \notin AudioExtensions

\* Variant of the test at line 605 without the comparison with the input.
cleanupAnyAudio(audioPath, filePath) == includes(audioPath, AudioSuffix)

\* The test at line 605.
cleanupWanted(audioPath, filePath) ==
  audioPath # filePath /\ includes(audioPath, AudioSuffix)

\* transcribeFile is called and runs to its first await (lines 578-587, 650).
TranscribeFileCall ==
  /\ call = NoCall
  /\ \E filePath \in TranscribePaths :
       \E fs \in TranscribeFileSystems(filePath) :
         call' = [ fn |-> "transcribeFile", filePath |-> filePath, before |-> fs,
                   fs |-> fs, extracted |-> {}, deleted |-> {},
                   cleanupFailed |-> FALSE,
                   audioPath |-> IF needsExtraction(filePath)
                                 THEN extractedAudioPath(filePath) ELSE filePath,
                   pc |-> IF ~existsSync(fs, filePath) THEN "threw"
                          ELSE IF needsExtraction(filePath) THEN "extracting"
                          ELSE "duration" ]
  /\ UNCHANGED << pipelineVars, tr, ctlVars >>

\* `await execAsync(command)` of extractAudioFromVideo settles (lines
\* 650-662): ffmpeg -y wrote the audio file and exited 0, or it failed, with
\* or without having written a file; the failure is rethrown by both catch
\* blocks.
ExtractDone ==
  /\ call.fn = "transcribeFile" /\ call.pc = "extracting"
  /\ \E ok \in BOOLEAN, wrote \in BOOLEAN :
       /\ ok => wrote
       /\ call' = [call EXCEPT
            !.fs = IF wrote THEN writeFile(@, call.audioPath, AudioFile) ELSE @,
            !.extracted = IF wrote THEN @ \cup {call.audioPath} ELSE @,
            !.pc = IF ok THEN "duration" ELSE "threw"]
  /\ UNCHANGED << pipelineVars, tr, ctlVars >>

\* getAudioDuration settles (lines 668-691; its fallback fs.statSync throws
\* when the file is missing), then the segments are simulated and the
\* extracted audio is cleaned up (lines 593-609, cleanupAudioFile 830-839,
\* which swallows what unlinkSync throws).
DurationDone ==
  /\ call.fn = "transcribeFile" /\ call.pc = "duration"
  /\ \E probed \in BOOLEAN :
       IF ~probed /\ ~existsSync(call.fs, call.audioPath)
       THEN call' = [call EXCEPT !.pc = "threw"]
       ELSE IF cleanupWanted(call.audioPath, call.filePath)
               /\ existsSync(call.fs, call.audioPath)
            THEN \E u \in unlinkSync(call.fs, call.audioPath) :
                   call' = [call EXCEPT
                     !.fs = u.fs,
                     !.deleted = IF u.threw THEN @ ELSE @ \cup {call.audioPath},
                     !.cleanupFailed = u.threw,
                     !.pc = "returned"]
            ELSE call' = [call EXCEPT !.pc = "returned"]
  /\ UNCHANGED << pipelineVars, tr, ctlVars >>

NextPure ==
  \/ FormatTime
  \/ ConvertColour
  \/ SelectSegments
  \/ BuildCommand
  \/ ShellReads
  \/ SimulateWhisper
  \/ FallbackSegments
  \/ TranscribeAudio
  \/ TranscribeFileCall
  \/ ExtractDone
  \/ DurationDone

SpecPure == Init /\ [][NextPure]_vars

\* ---------------------------------------------------------- translateText
\* TranslationService.translateText of src/unnamed/part_000.  A text is the
\* sequence of its words; the empty text is << >>.  A JavaScript value is a
\* string or null.
Str(words) == [type |-> "string", words |-> words]
Null == [type |-> "null", words |-> << >>]
Pending == [type |-> "pending", words |-> << >>]

\* `if (translation)`: null and '' are falsy.
Truthy(v) == v.type = "string" /\ v.words # << >>

Texts ==
  { << >>, <<"Hello", "world">>, <<"thank", "you">>, <<"bonjour">> }

TargetLanguages == {"pt", "es", "de"}
SourceLanguages == {"auto", "en"}

\* What this.ollama.generate can do: throw (the server is not running), or
\* answer with a text, which may be empty or the very text it was given.
OllamaResponses(text) ==
  { [threw |-> TRUE, response |-> << >>] }
    \cup { [threw |-> FALSE, response |-> r] : r \in { << >>, text, <<"olá", "mundo">> } }

\* translateWithOllama (lines 219-279); every exception is caught inside.
translateWithOllama(text, answer) ==
  IF text = << >> THEN Str(<< >>)
  ELSE IF answer.threw THEN Null
  ELSE IF answer.response # << >> /\ answer.response # text THEN Str(answer.response)
  ELSE Null

\* What axios.get can do: throw (network error, timeout), answer without
\* data, or answer with data[0][0][0], which may be the empty string.
GoogleResponses ==
  { [threw |-> TRUE, hasData |-> FALSE, data |-> << >>],
    [threw |-> FALSE, hasData |-> FALSE, data |-> << >>],
    [threw |-> FALSE, hasData |-> TRUE, data |-> << >>],
    [threw |-> FALSE, hasData |-> TRUE, data |-> <<"olá", "mundo">>] }

\* translateWithGoogle (lines 307-342); every exception is caught inside.
translateWithGoogle(answer) ==
  IF answer.threw THEN Null
  ELSE IF answer.hasData THEN Str(answer.data)
  ELSE Null

\* String.prototype.toLowerCase on a word.
toLowerCase(word) == IF word = "Hello" THEN "hello" ELSE word

\* The entries of the dictionaries (lines 350-404) for the words used here.
Dictionaries ==
  [ pt |-> [hello |-> "olá", thank |-> "obrigado", you |-> "você"],
    es |-> [hello |-> "hola", thank |-> "gracias", you |-> "tú"],
    fr |-> [hello |-> "bonjour", thank |-> "merci", you |-> "vous"] ]

\* translateWithDictionary (lines 347-430): the text itself when there is no
\* dictionary for the language, else word by word, unknown words kept.
translateWithDictionary(text, targetLanguage) ==
  IF targetLanguage \notin DOMAIN Dictionaries THEN Str(text)
  ELSE LET dictionary == Dictionaries[targetLanguage]
       IN  Str([ k \in 1..Len(text) |->
                   IF toLowerCase(text[k]) \in DOMAIN dictionary
                   THEN dictionary[toLowerCase(text[k])]
                   ELSE toLowerCase(text[k]) ])

\* The requests sent once translateWithOllama has run: none for an empty
\* text (lines 226-228), else this.ollama.generate.
OllamaRequest(text, requests) ==
  IF text = << >> THEN requests ELSE Append(requests, "ollama")

\* translateText is not running on behalf of translateSegments.
NoSegmentsCall == [pc |-> "none"]

\* `return v` of translateText.
TranslateReturn(t, v) == [t EXCEPT !.pc = "returned", !.result = v]

\* Variant: what Ollama returned is not looked at; Google is asked anyway.
OllamaResultIgnored(t, translation) ==
  [t EXCEPT !.pc = "google", !.ollama = translation, !.calls = Append(@, "google")]

\* Lines 194-201: return Ollama's translation if there is one, else go on to
\* `await this.translateWithGoogle(...)`.
AfterOllama(t, translation) ==
  IF Truthy(translation)
  THEN TranslateReturn([t EXCEPT !.ollama = translation], translation)
  ELSE [t EXCEPT !.pc = "google", !.ollama = translation, !.calls = Append(@, "google")]

\* Lines 204-213: return Google's translation if there is one, else what the
\* dictionary returns.
AfterGoogle(t, translation) ==
  IF Truthy(translation)
  THEN TranslateReturn([t EXCEPT !.google = translation], translation)
  ELSE TranslateReturn([t EXCEPT !.google = translation,
                                 !.calls = Append(@, "dictionary")],
                       translateWithDictionary(t.text, t.targetLanguage))

\* translateText(text, targetLanguage, sourceLanguage) entered (lines
\* 185-194); outer is the translateSegments call it runs for, if any.
translateText(text, targetLanguage, sourceLanguage, outer) ==
  [ pc |-> "ollama", text |-> text, targetLanguage |-> targetLanguage,
    sourceLanguage |-> sourceLanguage, calls |-> <<"ollama">>,
    requests |-> << >>,
    ollama |-> Pending, google |-> Pending, result |-> Pending,
    outer |-> outer ]

\* translateText called by a controller handler.
TranslateCall ==
  /\ tr = NoTranslation
  /\ \E text \in Texts, targetLanguage \in TargetLanguages,
        sourceLanguage \in SourceLanguages :
       tr' = translateText(text, targetLanguage, sourceLanguage, NoSegmentsCall)
  /\ UNCHANGED << pipelineVars, call, ctlVars >>

\* The lists of originalText given to translateSegments.
OriginalTextLists ==
  { <<t>> : t \in Texts } \cup { << <<"Hello", "world">>, <<"thank", "you">> >> }

\* `await this.translateText(segment.originalText, sourceLanguage,
\* targetLanguage)` of translateSegments (lines 154-158): the three arguments
\* bind, in this order, to the parameters (text, targetLanguage,
\* sourceLanguage) of translateText (lines 185-188).
translateSegmentAt(o, k) ==
  translateText(o.segments[k], o.sourceLanguage, o.targetLanguage, o)

\* translateSegments(segments, targetLanguage, sourceLanguage) is called and
\* runs up to the first `await this.translateText(...)` (lines 143-154).
TranslateSegmentsCall ==
  /\ tr = NoTranslation
  /\ \E segs \in OriginalTextLists, targetLanguage \in TargetLanguages,
        sourceLanguage \in SourceLanguages :
       tr' = translateSegmentAt([ pc |-> "translating", segments |-> segs,
                                  targetLanguage |-> targetLanguage,
                                  sourceLanguage |-> sourceLanguage,
                                  translatedSegments |-> << >> ], 1)
  /\ UNCHANGED << pipelineVars, call, ctlVars >>

\* translateText returned to translateSegments: the translation is pushed
\* (lines 160-163), and the loop calls translateText for the next segment or
\* returns the result (lines 166-170).
TranslateSegmentsStep ==
  /\ tr.pc = "returned"
  /\ tr.outer.pc = "translating"
  /\ LET o == [tr.outer EXCEPT !.translatedSegments =
                  Append(@, [originalText |-> tr.text, translatedText |-> tr.result])]
         k == Len(o.translatedSegments)
     IN  tr' = IF k < Len(o.segments)
               THEN translateSegmentAt(o, k + 1)
               ELSE [tr EXCEPT !.outer = [o EXCEPT !.pc = "returned"]]
  /\ UNCHANGED << pipelineVars, call, ctlVars >>

\* translateWithOllama settles.
OllamaDone ==
  /\ tr.pc = "ollama"
  /\ \E answer \in OllamaResponses(tr.text) :
       tr' = AfterOllama([tr EXCEPT !.requests = OllamaRequest(tr.text, @)],
                         translateWithOllama(tr.text, answer))
  /\ UNCHANGED << pipelineVars, call, ctlVars >>

\* translateWithGoogle settles.
GoogleDone ==
  /\ tr.pc = "google"
  /\ \E answer \in GoogleResponses :
       tr' = AfterGoogle([tr EXCEPT !.requests = Append(@, "google")],
                         translateWithGoogle(answer))
  /\ UNCHANGED << pipelineVars, call, ctlVars >>

NextTranslate ==
  \/ TranslateCall
  \/ TranslateSegmentsCall
  \/ TranslateSegmentsStep
  \/ OllamaDone
  \/ GoogleDone

SpecTranslate == Init /\ [][NextTranslate]_vars

\* -------------------------------------------------------------- controller
\* TranscriptionController of src/unnamed/part_001 behind the routes of
\* src/unnamed/part_002.  Each request has its own handler invocation in
\* http[r]; the invocations interleave at their awaits and share disk.  The
\* services are seen through what they return: transcribeFile resolves with
\* the transcription or rejects, translateText resolves with a string, and
\* generateVideoWithSubtitles resolves with a result.

\* multer's dest: 'temp/' of the routes, and an absolute directory.
UploadDirs == { <<"temp">>, <<"/", "srv", "/", "temp">> }

\* path.isAbsolute.
isAbsolute(p) == p # << >> /\ p[1] = "/"

\* req.file.path: multer names every upload differently.
UploadPath(dir, r) == join(dir, <<"u">> \o toDigits(r))

\* req.file.originalname, chosen by the client.
OriginalNames == { <<"clip", ".", "mp4">>, <<"talk", ".", "mp4">> }

\* originalname.replace(/\.[^/.]+$/, suffix): the extension, if any, is
\* replaced by the suffix.
replaceExtension(name, suffix) ==
  LET d == LastIndexOf(name, ".")
  IN  IF d = 0 \/ d = Len(name) THEN name ELSE SubSeq(name, 1, d - 1) \o suffix

\* Lines 125-126: the download file of a /transcribe request.
DownloadDir == <<"/", "app", "/", "temp">>
downloadFileName(originalname) ==
  replaceExtension(originalname, << >>) \o <<"_with_subtitles", ".", "mp4">>
downloadPath(originalname) == join(DownloadDir, downloadFileName(originalname))

\* Bodies of /transcribe requests: nothing set (target 'pt', source 'auto'),
\* target and source both 'en', and a vocabulary that is not JSON.  "" stands
\* for an absent field.
TranscribeBodies ==
  { [targetLanguage |-> "", language |-> "", vocabulary |-> ""],
    [targetLanguage |-> "en", language |-> "en", vocabulary |-> ""],
    [targetLanguage |-> "", language |-> "", vocabulary |-> "[s,"] }

\* Bodies of /generate-video-with-translated-subtitles requests.
GenerateFields ==
  { f \in BodyFields : f.kind = "absent" \/ (f.kind = "string" /\ f.text \in {"[s]", "[s,"}) }

\* Bodies of /translate/transcription requests.
TranslateBodies ==
  { [text |-> t, targetLanguage |-> l] : t \in {"", "hello"}, l \in {"", "pt"} }

\* What transcribeFile resolves with (segments of the simulated transcription).
Transcriptions ==
  { << [start |-> 0, end |-> 2000, text |-> "hello"],
       [start |-> 2000, end |-> 4000, text |-> "world"] >> }

\* What translateText can resolve with for a text: a translation by one of
\* the remote backends, or the dictionary's word, which may be the text itself.
TranslationsOf(text) ==
  IF text = "hello" THEN {"olá", "hello"}
  ELSE IF text = "world" THEN {"mundo", "world"}
  ELSE {text}

\* A translation that has not settled yet.
PendingSegment == [start |-> -1, end |-> -1, text |-> "", originalText |-> ""]

\* A handler invocation at its start.  settled lists the translateText calls
\* in the order in which they settled, with what each returned; trace lists
\* what the handler did.
NewRequest(handler, file, path, originalname, body) ==
  [ handler |-> handler, pc |-> "start", file |-> file, path |-> path,
    originalname |-> originalname, body |-> body,
    transcription |-> << >>, translatedSegments |-> << >>, pending |-> {},
    settled |-> << >>,
    passed |-> << >>, outputPath |-> NoPath,
    responses |-> << >>, trace |-> << >> ]

\* What one synchronous stretch of a handler leaves: the invocation and the disk.
Outcome(h, d) == [h |-> h, d |-> d]

Event(h, e) == [h EXCEPT !.trace = Append(@, e)]
At(h, position) == [h EXCEPT !.pc = position]

\* res.status(status).json(...) / res.json(...); download is the file the
\* answer's downloadUrl names, if any.
Respond(h, status, download) ==
  [h EXCEPT !.responses = Append(@, [status |-> status, download |-> download]),
            !.trace = Append(@, "respond")]

\* `await service(...)`: the service is invoked and the handler waits.
Invoke(h, service, position) == At(Event(h, service), position)

\* An exception leaves the async handler: its promise rejects, which nothing
\* handles, and no response is sent.
Rejected(h) == At(Event(h, "rejected"), "done")

\* The catch blocks of the two video handlers (lines 168-180, 281-295): the
\* upload is deleted if it exists, then 500 is answered.  unlinkSync can
\* throw, and that exception leaves the handler.
Caught(h, d) ==
  IF h.file /\ existsSync(d, h.path)
  THEN { IF u.threw THEN Outcome(Rejected(h), d)
         ELSE Outcome(At(Respond(Event(h, "unlinkUpload"), 500, NoPath), "done"), u.fs)
         : u \in unlinkSync(d, h.path) }
  ELSE { Outcome(At(Respond(h, 500, NoPath), "done"), d) }

\* `if (!result.success)` (lines 111-120, 249-258): the upload is deleted,
\* then 500 is answered; what unlinkSync throws goes to the catch block.
RenderFailed(h, d) ==
  UNION { IF u.threw THEN Caught(h, d)
          ELSE { Outcome(At(Respond(Event(h, "unlinkUpload"), 500, NoPath), "done"), u.fs) }
          : u \in unlinkSync(d, h.path) }

\* What generateVideoWithSubtitles resolves with and leaves on disk: success
\* with the output file, or failure with or without a file at the output path.
RenderedFile(r, segs) == [kind |-> "video", request |-> r, cues |-> segs]
RenderOutcomes ==
  { [success |-> TRUE, wrote |-> TRUE],
    [success |-> FALSE, wrote |-> FALSE],
    [success |-> FALSE, wrote |-> TRUE] }

\* The output path the pipeline derives for the upload of request r.
RenderPath(h) ==
  generateOutputPath(h.path, 0, <<"k", "3", "f", "9", "q", "0", "z", "m", "a">>)

\* fs.copyFileSync(src, dest): copies, or throws (no space left, src missing).
copyFileSync(d, src, dest) ==
  { [threw |-> TRUE, fs |-> d] }
    \cup (IF existsSync(d, src)
          THEN { [threw |-> FALSE, fs |-> writeFile(d, dest, d[src])] }
          ELSE {})

Settle(r, o) ==
  /\ http' = [http EXCEPT ![r] = o.h]
  /\ disk' = o.d
  /\ UNCHANGED << pipelineVars, call, tr >>

\* multer has stored the upload, if the request carries one, before the
\* handler runs.
Uploaded(h, d) == IF h.file THEN writeFile(d, h.path, VideoFile(1, << >>)) ELSE d

\* `await this.videoService.generateVideoWithSubtitles(videoFile.path, segs,
\* style)` (lines 97-109, 235-247).
InvokePipeline(h, segs) ==
  [Invoke(h, "generateVideoWithSubtitles", "rendering") EXCEPT !.passed = segs]

\* Lines 88-92: videoSegments.
videoSegments(finalSegments) ==
  [ k \in DOMAIN finalSegments |->
      [start |-> finalSegments[k].start, end |-> finalSegments[k].end,
       text |-> finalSegments[k].text] ]

\* ---- transcribeAndGenerateVideo
\* Lines 25-58: up to `await this.whisperService.transcribeFile(...)`.
transcribeAndGenerateVideo(h, d) ==
  IF ~h.file
  THEN { Outcome(At(Respond(h, 400, NoPath), "done"), d) }
  ELSE IF h.body.vocabulary # "" /\ JSONparse(h.body.vocabulary).threw
  THEN Caught(h, d)
  ELSE { Outcome(Invoke(h, "transcribeFile", "transcribing"), d) }

TranscribeRequest(r) ==
  /\ http[r] = NoRequest
  /\ \E file \in BOOLEAN, name \in OriginalNames, body \in TranscribeBodies :
       LET h == NewRequest("transcribe", file, UploadPath(<<"temp">>, r), name, body)
       IN  \E o \in transcribeAndGenerateVideo(h, Uploaded(h, disk)) : Settle(r, o)

\* Lines 42-43: the languages of the request.
targetLanguageOf(body) == IF body.targetLanguage # "" THEN body.targetLanguage ELSE "pt"
sourceLanguageOf(body) == IF body.language # "" THEN body.language ELSE "auto"

\* Lines 60-97, after the transcription arrived: either one translateText
\* call per segment is started (Promise.all over the mapped promises), or the
\* pipeline is invoked with the transcription's segments.
afterTranscription(h, t) ==
  LET h1 == [h EXCEPT !.transcription = t]
  IN  IF targetLanguageOf(h.body) # sourceLanguageOf(h.body)
         /\ targetLanguageOf(h.body) # "auto"
      THEN [h1 EXCEPT !.pc = "translating",
                      !.trace = @ \o [k \in DOMAIN t |-> "translateText"],
                      !.pending = DOMAIN t,
                      !.translatedSegments = [k \in DOMAIN t |-> PendingSegment]]
      ELSE InvokePipeline(h1, videoSegments(t))

\* transcribeFile settles: a rejection goes to the catch block.
TranscribeFileSettles(r) ==
  /\ http[r].pc = "transcribing"
  /\ \E rejected \in BOOLEAN, t \in Transcriptions :
       \E o \in (IF rejected THEN Caught(http[r], disk)
                 ELSE { Outcome(afterTranscription(http[r], t), disk) }) :
         Settle(r, o)

\* Variant: the translated segments are collected in the order in which the
\* translations arrive.
pushTranslation(list, k, seg) ==
  LET j == CHOOSE j \in DOMAIN list :
             /\ list[j] = PendingSegment
             /\ \A i \in 1..(j - 1) : list[i] # PendingSegment
  IN  [list EXCEPT ![j] = seg]

\* Promise.all (line 68): the value of the k-th promise is the k-th element.
placeTranslation(list, k, seg) == [list EXCEPT ![k] = seg]

\* The translateText call for segment k settles (lines 70-80); when it was
\* the last one, Promise.all resolves and the pipeline is invoked.
TranslationSettles(r, k) ==
  /\ http[r].pc = "translating"
  /\ k \in http[r].pending
  /\ \E translatedText \in TranslationsOf(http[r].transcription[k].text) :
       LET segment == http[r].transcription[k]
           seg == [start |-> segment.start, end |-> segment.end,
                   text |-> translatedText, originalText |-> segment.text]
           h1 == [http[r] EXCEPT
                    !.translatedSegments = placeTranslation(@, k, seg),
                    !.pending = @ \ {k},
                    !.settled = Append(@, [k |-> k, text |-> translatedText])]
       IN  Settle(r, Outcome(IF h1.pending = {}
                             THEN InvokePipeline(h1, videoSegments(h1.translatedSegments))
                             ELSE h1,
                             disk))

\* Lines 124-166: the output is copied to the download location, the answer
\* names it, and the cleanup timer is set.
Download(h, d) ==
  UNION { IF c.threw THEN Caught(h, d)
          ELSE { Outcome(At(Respond(Event(h, "copy"), 200, downloadPath(h.originalname)),
                            "timer"), c.fs) }
          : c \in copyFileSync(d, h.outputPath, downloadPath(h.originalname)) }

\* The result of the pipeline as the handler sees it, with what the pipeline
\* left on disk.
Rendered(r, res) ==
  Outcome(IF res.success THEN [http[r] EXCEPT !.outputPath = RenderPath(http[r])]
          ELSE http[r],
          IF res.wrote
          THEN writeFile(disk, RenderPath(http[r]), RenderedFile(r, http[r].passed))
          ELSE disk)

\* generateVideoWithSubtitles settles for a /transcribe request (lines 111-166).
TranscribeRenderSettles(r) ==
  /\ http[r].pc = "rendering" /\ http[r].handler = "transcribe"
  /\ \E res \in RenderOutcomes :
       LET a == Rendered(r, res)
       IN  \E o \in (IF res.success THEN Download(a.h, a.d) ELSE RenderFailed(a.h, a.d)) :
             Settle(r, o)

unlinkIfExists(d, p) ==
  IF existsSync(d, p) THEN unlinkSync(d, p)
  ELSE { [threw |-> FALSE, error |-> << >>, fs |-> d] }

\* The two deletions of the timer (lines 159-166) and of the sendFile
\* callback (lines 270-274); first is the outcome of the first one.  What
\* unlinkSync throws here is caught by nothing and ends the callback.
CleanupBoth(h, d, first) ==
  UNION { IF u.threw
          THEN { Outcome(At(Event(h, "cleanupThrew"), "done"), d) }
          ELSE { IF v.threw
                 THEN Outcome(At(Event(Event(h, "unlinkUpload"), "cleanupThrew"), "done"), u.fs)
                 ELSE Outcome(At(Event(Event(h, "unlinkUpload"), "unlinkOutput"), "done"), v.fs)
                 : v \in unlinkIfExists(u.fs, h.outputPath) }
          : u \in first }

\* The timer set at line 159 fires.
TimerFires(r) ==
  /\ http[r].pc = "timer"
  /\ \E o \in CleanupBoth(http[r], disk, unlinkIfExists(disk, http[r].path)) :
       Settle(r, o)

\* ---- generateVideoWithTranslatedSubtitles
\* Lines 183-247: up to `await this.videoService.generateVideoWithSubtitles`.
generateVideoWithTranslatedSubtitles(h, d) ==
  IF ~h.file
  THEN { Outcome(At(Respond(h, 400, NoPath), "done"), d) }
  ELSE IF selectSegments(h.body).status = "400"
  THEN { Outcome(At(Respond(h, 400, NoPath), "done"), d) }
  ELSE { Outcome(InvokePipeline(h, selectSegments(h.body).segments), d) }

GenerateRequest(r) ==
  /\ http[r] = NoRequest
  /\ \E file \in BOOLEAN, dir \in UploadDirs, field \in GenerateFields :
       LET h == NewRequest("generate", file, UploadPath(dir, r), <<"clip", ".", "mp4">>, field)
       IN  \E o \in generateVideoWithTranslatedSubtitles(h, Uploaded(h, disk)) : Settle(r, o)

\* res.sendFile(result.outputPath, callback) (line 269): throws TypeError
\* for a path that is not absolute, else starts sending.
sendFile(h, d) ==
  IF ~isAbsolute(h.outputPath)
  THEN Caught(Event(h, "sendFileThrew"), d)
  ELSE { Outcome(At(Event(h, "sendFile"), "sending"), d) }

\* generateVideoWithSubtitles settles for a /generate-video request (lines
\* 249-279).
GenerateRenderSettles(r) ==
  /\ http[r].pc = "rendering" /\ http[r].handler = "generate"
  /\ \E res \in RenderOutcomes :
       LET a == Rendered(r, res)
       IN  \E o \in (IF res.success THEN sendFile(a.h, a.d) ELSE RenderFailed(a.h, a.d)) :
             Settle(r, o)

\* The file has been sent and the callback of sendFile runs (lines 269-279).
SendFileDone(r) ==
  /\ http[r].pc = "sending"
  /\ \E o \in CleanupBoth(Respond(http[r], 200, NoPath), disk,
                          unlinkSync(disk, http[r].path)) :
       Settle(r, o)

\* ---- translateTranscription
\* Variant of the test at line 307 that looks at the text only.
missingTextOnly(body) == body.text = ""

\* `if (!text || !targetLanguage)` (line 307).
missingTranslateInput(body) == body.text = "" \/ body.targetLanguage = ""

\* Lines 301-323: up to `await this.translationService.translateText(...)`.
translateTranscription(h, d) ==
  IF missingTranslateInput(h.body)
  THEN { Outcome(At(Respond(h, 400, NoPath), "done"), d) }
  ELSE { Outcome(Invoke(h, "translateText", "translatingText"), d) }

TranslateRequest(r) ==
  /\ http[r] = NoRequest
  /\ \E body \in TranslateBodies :
       \E o \in translateTranscription(NewRequest("translate", FALSE, NoPath, << >>, body),
                                       disk) :
         Settle(r, o)

\* translateText settles and the translation is answered (lines 325-339).
TranslateTextSettles(r) ==
  /\ http[r].pc = "translatingText"
  /\ \E translatedText \in TranslationsOf(http[r].body.text) :
       Settle(r, Outcome(At(Respond(http[r], 200, NoPath), "done"), disk))

NextController ==
  \E r \in Requests :
    \/ TranscribeRequest(r)
    \/ TranscribeFileSettles(r)
    \/ \E k \in 1..2 : TranslationSettles(r, k)
    \/ TranscribeRenderSettles(r)
    \/ TimerFires(r)
    \/ GenerateRequest(r)
    \/ GenerateRenderSettles(r)
    \/ SendFileDone(r)
    \/ TranslateRequest(r)
    \/ TranslateTextSettles(r)

SpecController == Init /\ [][NextController]_vars

\* The event loop runs every callback that is ready: a promise that can
\* settle settles, a timer that is due fires.
FairSpecController ==
  /\ SpecController
  /\ \A r \in Requests :
       /\ WF_vars(TranscribeFileSettles(r))
       /\ WF_vars(\E k \in 1..2 : TranslationSettles(r, k))
       /\ WF_vars(TranscribeRenderSettles(r))
       /\ WF_vars(TimerFires(r))
       /\ WF_vars(GenerateRenderSettles(r))
       /\ WF_vars(SendFileDone(r))
       /\ WF_vars(TranslateTextSettles(r))

\* ------------------------------------------------------------ vocabulary
Has(i, event) == \E k \in DOMAIN log[i] : log[i][k] = event
Count(i, event) == Cardinality({ k \in DOMAIN log[i] : log[i][k] = event })
Position(i, event) == CHOOSE k \in DOMAIN log[i] : log[i][k] = event
Returned(i) == pc[i] = "returned"
Returning(i) == pc[i] # "returned" /\ pc'[i] = "returned"
InFlight(i) == pc[i] \in {"probing", "srtWritten", "rendering", "exited"}
HasInvalidSegment(segs) == \E k \in DOMAIN segs : segs[k].end <= segs[k].start
HasQuote(p) == \E k \in DOMAIN p : p[k] = DQ

\* ------------------------------------------------------------------ C1
\* C1: when generateVideoWithSubtitles returns after having written its SRT
\* file, and no deletion it attempted failed, that file no longer exists.
C1_SrtGoneAtReturn ==
  [][ \A i \in Calls :
        (Returning(i) /\ Has(i, "written")' /\ ~Has(i, "unlinkFailed")')
          => ~existsSync(files', srtPath[i]) ]_vars

\* ------------------------------------------------------------------ C2
\* C2: when the render process ended without error and no file exists at
\* the derived output path, the invocation returns success = false.
C2_MissingOutputIsFailure ==
  [][ \A i \in Calls :
        (Returning(i) /\ pc[i] = "exited" /\ execError[i] = "ok"
           /\ ~existsSync(files, outputPath[i]))
          => ~result'[i].success ]_vars

C2_Witness ==
  \E i \in Calls :
    /\ Returned(i) /\ execError[i] = "ok" /\ Has(i, "outputMissing")
    /\ ~existsSync(files, outputPath[i])
    /\ result[i] = OutputMissingResult

\* ------------------------------------------------------------------ C3
\* C3: the invocation returns success = true only if, when it returns, the
\* output file exists and is not empty.
C3_SuccessOnlyIfNonEmptyOutput ==
  [][ \A i \in Calls :
        (Returning(i) /\ result'[i].success)
          => /\ existsSync(files', outputPath[i])
             /\ files'[outputPath[i]].size > 0 ]_vars

\* ------------------------------------------------------------------ C4
\* C4: an invocation whose 'ffmpeg -version' probe failed has returned
\* success = false with the tool-not-found message, which no other failure
\* produces; it wrote no subtitle file and built and started no render
\* command; and in every invocation the probe is the first step, before the
\* subtitle-file write and the render command.
C4_ProbeFailureStopsEarly ==
  \A i \in Calls :
    /\ Has(i, "probeFailed") =>
         /\ Returned(i)
         /\ result[i] = ToolNotFoundResult
         /\ ~result[i].success
         /\ srtPath[i] = NoPath /\ ~Has(i, "write")
         /\ ffmpegCommand[i] = << >> /\ ~Has(i, "render")
         /\ \A p \in DOMAIN files : files[p].kind = "srt" =>
              \E j \in Calls \ {i} : srtPath[j] = p
    /\ (Returned(i) /\ result[i].message = ToolNotFoundResult.message)
         => Has(i, "probeFailed")
    /\ (Has(i, "write") \/ Has(i, "render")) =>
         /\ log[i][1] = "probe"
         /\ Has(i, "write") => Position(i, "probe") < Position(i, "write")
         /\ Has(i, "render") => Position(i, "probe") < Position(i, "render")

C4_Witness ==
  \E i \in Calls, j \in Calls :
    /\ Has(i, "probeFailed") /\ Returned(i) /\ result[i] = ToolNotFoundResult
    /\ Has(j, "render") /\ Has(j, "written")

\* ------------------------------------------------------------------ C5
\* C5: two invocations in flight at the same time with distinct video paths
\* have distinct output paths and distinct subtitle-file paths.
C5_ConcurrentPathsDistinct ==
  \A i \in Calls, j \in Calls :
    (i # j /\ InFlight(i) /\ InFlight(j) /\ inputVideoPath[i] # inputVideoPath[j])
      => /\ (srtPath[i] # NoPath /\ srtPath[j] # NoPath) => srtPath[i] # srtPath[j]
         /\ (outputPath[i] # NoPath /\ outputPath[j] # NoPath)
              => outputPath[i] # outputPath[j]

\* ------------------------------------------------------------------ C6
\* C6: no invocation ends in a rejected promise; an invocation in which any
\* step failed (probe, directory creation or file write, render process,
\* output check, subtitle-file deletion) has returned a result with
\* success = false and a non-empty message.
StepFailed(i) ==
  \/ Has(i, "probeFailed") \/ Has(i, "mkdirFailed") \/ Has(i, "writeFailed")
  \/ Has(i, "renderFailed") \/ Has(i, "outputMissing") \/ Has(i, "unlinkFailed")

C6_FailuresAreReturned ==
  \A i \in Calls :
    /\ pc[i] # "rejected"
    /\ (StepFailed(i) \/ execError[i] = "error") =>
         \/ pc[i] = "exited"
         \/ /\ Returned(i)
            /\ ~result[i].success
            /\ Len(result[i].message) > 0
            /\ result[i].message[1] # ""

C6_Witness ==
  \E i \in Calls, j \in Calls :
    /\ Returned(i) /\ Has(i, "outputFound") /\ Has(i, "unlinkFailed")
    /\ ~result[i].success
    /\ Returned(j) /\ Has(j, "writeFailed") /\ ~result[j].success

\* ------------------------------------------------------------------ C7
\* C7: when the output file was missing and the deletion of the subtitle
\* file then failed, the returned message is the one of the missing output,
\* not the deletion error.
C7_CleanupErrorDoesNotOverride ==
  \A i \in Calls :
    (Returned(i) /\ Has(i, "outputMissing") /\ Has(i, "unlinkFailed"))
      => result[i].message = OutputMissingResult.message

C9_InvalidSegmentsRejected ==
  /\ \A p \in DOMAIN files :
       files[p].kind = "srt" =>
         \A k \in DOMAIN files[p].cues :
           SRTTimeMillis(files[p].cues[k].endTime)
             > SRTTimeMillis(files[p].cues[k].startTime)
  /\ \A i \in Calls :
       HasInvalidSegment(segments[i]) =>
         /\ ~Has(i, "render")
         /\ Returned(i) => ~result[i].success

\* ----------------------------------------------------------------- C10
\* C10: an invocation whose video path holds a double quote never builds or
\* starts a render command, and it returns success = false.
C10_QuotedPathRejected ==
  \A i \in Calls :
    HasQuote(inputVideoPath[i]) =>
      /\ ffmpegCommand[i] = << >>
      /\ ~Has(i, "render")
      /\ Returned(i) => ~result[i].success

\* ------------------------------------------------------------------ C11
\* C11: the step of an invocation that writes the subtitle file writes one
\* cue per segment it was given: as many cues as segments, the k-th cue
\* numbered k and holding the formatted start and end and the unchanged text
\* of the k-th segment, whatever the order of the segments' times.
C11_OneCuePerSegmentInOrder ==
  [][ \A i \in Calls :
        (pc[i] = "probing" /\ pc'[i] = "srtWritten") =>
          LET cues == files'[srtPath'[i]].cues
              segs == segments[i]
          IN  /\ DOMAIN cues = 1..Len(segs)
              /\ \A k \in 1..Len(segs) :
                   /\ cues[k].index = k
                   /\ cues[k].startTime = formatSRTTime(segs[k].start)
                   /\ cues[k].endTime = formatSRTTime(segs[k].end)
                   /\ cues[k].text = segs[k].text ]_vars

\* An invocation given a list whose second segment starts before the first
\* has written its file: the cues are in the order given, not in time order.
C11_Witness ==
  \E i \in Calls :
    /\ pc[i] = "srtWritten"
    /\ Len(segments[i]) = 2
    /\ segments[i][2].start < segments[i][1].start
    /\ existsSync(files, srtPath[i])
    /\ files[srtPath[i]].cues[1].text = segments[i][1].text
    /\ files[srtPath[i]].cues[2].index = 2
    /\ SRTTimeMillis(files[srtPath[i]].cues[2].startTime)
         < SRTTimeMillis(files[srtPath[i]].cues[1].startTime)

\* ------------------------------------------------------------------ C12
\* C12: formatSRTTime prints HH:MM:SS,mmm, the fields zero-padded to 2/2/2/3
\* digits; 0 s, 65.5 s, 3661.001 s and 59.999 s print as 00:00:00,000,
\* 00:01:05,500, 01:01:01,001 and 00:00:59,999; and for every time that is a
\* whole number of milliseconds the printed time denotes that same number.
C12_FormatIsExact ==
  call.fn = "formatSRTTime" =>
    /\ Len(call.out) >= 12
    /\ call.out[Len(call.out) - 3] = ","
    /\ call.out[Len(call.out) - 6] = ":"
    /\ call.out[Len(call.out) - 9] = ":"
    /\ call.arg = 0 =>
         call.out = <<"0", "0", ":", "0", "0", ":", "0", "0", ",", "0", "0", "0">>
    /\ call.arg = 65500 =>
         call.out = <<"0", "0", ":", "0", "1", ":", "0", "5", ",", "5", "0", "0">>
    /\ call.arg = 3661001 =>
         call.out = <<"0", "1", ":", "0", "1", ":", "0", "1", ",", "0", "0", "1">>
    /\ call.arg = 59999 =>
         call.out = <<"0", "0", ":", "0", "0", ":", "5", "9", ",", "9", "9", "9">>
    /\ SRTTimeMillis(call.out) = call.arg

\* ------------------------------------------------------------------ C13
\* The six digits RRGGBB of a colour, after an optional leading '#'.
RGBDigits(hex) == IF hex[1] = "#" THEN SubSeq(hex, 2, 7) ELSE SubSeq(hex, 1, 6)

\* Whether a colour carries an alpha component after its six digits.
HasAlpha(hex) == Len(hex) = (IF hex[1] = "#" THEN 9 ELSE 8)

LowerCase(c) == IF IsHex(c) THEN HexDigits[HexVal(c) + 1] ELSE c

\* C13: for a colour RRGGBB or RRGGBBAA, with or without '#', hexToBGR
\* returns &H, the two digits of B, of G and of R in that order (letter case
\* aside), and &: two digits per channel, and nothing of the alpha component.
C13_ChannelsReordered ==
  call.fn = "hexToBGR" =>
    LET d == RGBDigits(call.arg)
    IN  /\ Len(call.out) = 8
        /\ call.out[1] = "&H" /\ call.out[8] = "&"
        /\ [k \in 1..6 |-> LowerCase(call.out[k + 1])]
             = [k \in 1..6 |-> LowerCase(<<d[5], d[6], d[3], d[4], d[1], d[2]>>[k])]

\* #112233 with an alpha component has been converted to 332211.
C13_Witness ==
  /\ call.fn = "hexToBGR"
  /\ HasAlpha(call.arg)
  /\ call.arg[1] = "#"
  /\ RGBDigits(call.arg) = <<"1", "1", "2", "2", "3", "3">>
  /\ call.out = <<"&H", "3", "3", "2", "2", "1", "1", "&">>

\* ------------------------------------------------------------------ C14
\* C14: the output path an invocation derives is never its input path, and
\* the run of its render process, which replaces whatever is at the output
\* path, leaves the source video as it was.
C14_SourceNeverOverwritten ==
  [][ \A i \in Calls :
        /\ (pc[i] = "srtWritten" /\ pc'[i] = "rendering") =>
             outputPath'[i] # inputVideoPath[i]
        /\ (pc[i] = "rendering" /\ pc'[i] = "exited"
               /\ existsSync(files, inputVideoPath[i])) =>
             /\ existsSync(files', inputVideoPath[i])
             /\ files'[inputVideoPath[i]] = files[inputVideoPath[i]] ]_vars

\* The render process of an invocation on up/a.mp4 has written a complete
\* output, a file with the subtitles, next to the source, which has none.
C14_Witness ==
  \E i \in Calls :
    /\ pc[i] = "exited"
    /\ inputVideoPath[i] = <<"up", "/", "a", ".", "mp4">>
    /\ existsSync(files, outputPath[i])
    /\ files[outputPath[i]].size = 1
    /\ files[outputPath[i]].cues # << >>
    /\ dirname(outputPath[i]) = dirname(inputVideoPath[i])
    /\ files[inputVideoPath[i]] = VideoFile(1, << >>)

\* ------------------------------------------------------------------ C15
\* Whether the text part occurs in the text whole.
Carries(whole, part) ==
  \E k \in 0..(Len(whole) - Len(part)) : SubSeq(whole, k + 1, k + Len(part)) = part

\* C15: when the render process ended without error and its output file is
\* there, the invocation returns success = true, whether or not the process
\* wrote to its standard error; when the process failed, the invocation
\* returns success = false and a message that holds what the process wrote
\* to its standard error.
C15_StderrIsNotFailure ==
  [][ \A i \in Calls :
        (Returning(i) /\ pc[i] = "exited") =>
          /\ (execError[i] = "ok" /\ existsSync(files, outputPath[i])) =>
               result'[i].success
          /\ execError[i] = "error" =>
               /\ ~result'[i].success
               /\ Carries(result'[i].message, stderr[i]) ]_vars

\* ------------------------------------------------------------------ C16
\* C16: the result an invocation returns has an output path exactly when its
\* success is true; an invocation has no result before it returns, and the
\* result it returned is never replaced by another.
C16_OneResultPathIffSuccess ==
  [][ \A i \in Calls :
        /\ Returning(i) => (result'[i].outputPath # NoPath <=> result'[i].success)
        /\ Returned(i) => (pc'[i] = "returned" /\ result'[i] = result[i])
        /\ (~Returned(i) /\ ~Returning(i)) =>
             (result'[i] = NoResult /\ pc'[i] \in {"idle", "probing", "srtWritten",
                                                   "rendering", "exited"}) ]_vars

\* Both invocations have returned, one with success and the path of its
\* output, the other with a failure and no path.
C16_Witness ==
  \E i \in Calls, j \in Calls :
    /\ Returned(i) /\ result[i].success /\ result[i].outputPath = outputPath[i]
    /\ outputPath[i] # NoPath
    /\ Returned(j) /\ ~result[j].success /\ result[j].outputPath = NoPath
    /\ outputPath[j] # NoPath

\* ------------------------------------------------------------------ C17
\* C17: translateText calls its backends in the order Ollama, Google,
\* dictionary; Google is called only after Ollama gave no translation, the
\* dictionary only after Google gave none either; no backend is called after
\* one that gave a translation, whose translation is what is returned; and
\* what translateText returns is always a string.
C17_BackendsInOrderStopAtFirst ==
  tr.pc # "idle" =>
    /\ tr.calls \in { <<"ollama">>, <<"ollama", "google">>,
                       <<"ollama", "google", "dictionary">> }
    /\ Len(tr.calls) >= 2 => (tr.ollama # Pending /\ ~Truthy(tr.ollama))
    /\ Len(tr.calls) >= 3 => (tr.google # Pending /\ ~Truthy(tr.google))
    /\ Truthy(tr.ollama) => (tr.calls = <<"ollama">> /\ tr.result = tr.ollama)
    /\ Truthy(tr.google) => (tr.calls = <<"ollama", "google">> /\ tr.result = tr.google)
    /\ tr.pc \in {"ollama", "google", "returned"}
    /\ tr.pc = "returned" => tr.result.type = "string"
    /\ tr.pc # "returned" => tr.result = Pending

\* Ollama threw and Google answered with nothing, so the dictionary was asked
\* and translateText returned its word-by-word translation.
C17_Witness ==
  /\ tr.pc = "returned"
  /\ tr.calls = <<"ollama", "google", "dictionary">>
  /\ tr.text = <<"Hello", "world">>
  /\ tr.targetLanguage = "pt"
  /\ tr.result = Str(<<"olá", "world">>)

\* ------------------------------------------------------------------ C18
\* The list a request supplies: none when the field is absent or empty.
Supplied(field) ==
  IF field.kind = "array" THEN field.list
  ELSE IF field.kind = "string" /\ field.text = "[s]"
    THEN << [start |-> 500, end |-> 2000, text |-> "só"] >>
  ELSE IF field.kind = "string" /\ field.text = "[b,a]"
    THEN << [start |-> 4000, end |-> 5000, text |-> "b"],
            [start |-> 0, end |-> 1000, text |-> "a"] >>
  ELSE << >>

\* C18: when the request has no translatedSegments field, or the field holds
\* an empty list, the pipeline is invoked with three segments, 0-3 s, 3-6 s
\* and 6-9 s; when it holds a list of at least one segment, the pipeline is
\* invoked with that list as it is.
C18_MockOnlyWhenNoSegments ==
  call.fn = "selectSegments" =>
    LET field == call.arg
        wellFormed == field.kind # "string" \/ field.text \in {"", "[]", "[s]", "[b,a]"}
    IN  /\ (wellFormed /\ Supplied(field) = << >>) =>
             /\ call.out.status = "invoked"
             /\ Len(call.out.segments) = 3
             /\ \A k \in 1..3 :
                  /\ call.out.segments[k].start = 3000 * (k - 1)
                  /\ call.out.segments[k].end = 3000 * k
        /\ (wellFormed /\ Supplied(field) # << >>) =>
             /\ call.out.status = "invoked"
             /\ call.out.segments = Supplied(field)

\* A form field holding the text of an empty list has been replaced by the
\* three mock segments.
C18_Witness ==
  /\ call.fn = "selectSegments"
  /\ call.arg.kind = "string"
  /\ call.arg.text = "[]"
  /\ call.out.status = "invoked"
  /\ call.out.segments = MockSegments

\* ------------------------------------------------------------------ C19
\* C19: the command string built for an invocation is, for the shell that
\* runs it, one command of these words: ffmpeg, -i and the source video,
\* -vf and one subtitles filter that names the SRT path and sets FontName,
\* FontSize, PrimaryColour, BackColour, BorderWidth, OutlineColour and
\* MarginV from the style (the colours as hexToBGR gives them), -c:a copy,
\* -c:v libx264 -preset medium -crf 23, -y, and last the output path.
C19_OneRenderCommand ==
  (call.fn = "buildFFmpegCommand" /\ call.read = Len(call.out)) =>
    LET a == call.arg
        sh == ShellCommands(call.sh)
        filter ==
          <<"subtitles=">> \o a.srtPath
            \o <<":force_style=", "'", "FontName=", a.style.fontName,
                 ",FontSize=", ToString(a.style.fontSize), ",PrimaryColour=">>
            \o hexToBGR(a.style.fontColor) \o <<",BackColour=">>
            \o hexToBGR(a.style.backgroundColor)
            \o <<",BorderWidth=", ToString(a.style.borderWidth), ",OutlineColour=">>
            \o hexToBGR(a.style.borderColor)
            \o <<",MarginV=", ToString(a.style.marginVertical), "'">>
    IN  /\ ~sh.unterminated
        /\ sh.commands =
             << << <<"ffmpeg">>, <<"-i">>, a.inputPath, <<"-vf">>, filter,
                   <<"-c:a">>, <<"copy">>, <<"-c:v">>, <<"libx264">>,
                   <<"-preset">>, <<"medium">>, <<"-crf">>, <<"23">>,
                   <<"-y">>, a.outputPath >> >>

\* ------------------------------------------------------------------ C20
\* C20: every segment list the services generate themselves, for every
\* duration from 1 s to 600 s, has in each segment start >= 0 and, after the
\* rounding to two decimals, end > start, and its starts never decrease
\* along the list.
C20_GeneratedSegmentsValid ==
  call.fn \in {"simulateWhisperTranscription", "generateFallbackSegments",
               "transcribeAudio"} =>
    \A k \in DOMAIN call.out :
      /\ call.out[k].start >= 0
      /\ call.out[k].end > call.out[k].start
      /\ k > 1 => call.out[k].start >= call.out[k - 1].start

\* ------------------------------------------------------------------ C27
\* C27: when an invocation returns success = false after it derived its
\* output path, no file exists at that output path.
C27_FailureLeavesNoOutput ==
  [][ \A i \in Calls :
        (Returning(i) /\ ~result'[i].success /\ outputPath[i] # NoPath) =>
          ~existsSync(files', outputPath[i]) ]_vars

\* ------------------------------------------------------------------ C23
\* C23: while translateSegments(segments, targetLanguage, sourceLanguage)
\* has a segment translated, the text given to translateText is that
\* segment's originalText, and the target and source languages translateText
\* and its backends work with are the targetLanguage and sourceLanguage
\* arguments of translateSegments.
C23_TargetLanguageReachesBackends ==
  (tr.pc # "idle" /\ tr.outer.pc # "none") =>
    /\ tr.text \in { tr.outer.segments[k] : k \in DOMAIN tr.outer.segments }
    /\ tr.targetLanguage = tr.outer.targetLanguage
    /\ tr.sourceLanguage = tr.outer.sourceLanguage

\* ------------------------------------------------------------------ C29
\* C29: for the empty text translateText returns the empty string from its
\* Ollama step: no request is sent to Ollama or to Google, and neither
\* Google nor the dictionary is called.
C29_EmptyTextShortCircuits ==
  (tr.pc # "idle" /\ tr.text = << >>) =>
    /\ tr.requests = << >>
    /\ tr.calls = <<"ollama">>
    /\ tr.pc = "returned" => tr.result = Str(<< >>)

\* ------------------------------------------------------------------ C28
\* C28: transcribeFile never deletes the file it was given; every file it
\* deletes is an audio file it extracted, at a path other than the input that
\* contains _audio.wav; and when it returns a result, no audio file it
\* extracted is left.
C28_OnlyOwnAudioDeleted ==
  call.fn = "transcribeFile" =>
    /\ call.filePath \notin call.deleted
    /\ existsSync(call.before, call.filePath) => existsSync(call.fs, call.filePath)
    /\ \A p \in call.deleted :
         /\ p \in call.extracted
         /\ p # call.filePath
         /\ includes(p, AudioSuffix)
    /\ call.pc = "returned" =>
         \A p \in call.extracted : ~existsSync(call.fs, p)

\* C28, amended: as C28, but an extracted audio file may be left when its
\* deletion failed, which cleanupAudioFile logs and does not report.
C28_OnlyOwnAudioDeletedIfDeletable ==
  call.fn = "transcribeFile" =>
    /\ call.filePath \notin call.deleted
    /\ existsSync(call.before, call.filePath) => existsSync(call.fs, call.filePath)
    /\ \A p \in call.deleted :
         /\ p \in call.extracted
         /\ p # call.filePath
         /\ includes(p, AudioSuffix)
    /\ (call.pc = "returned" /\ ~call.cleanupFailed) =>
         \A p \in call.extracted : ~existsSync(call.fs, p)

\* transcribeFile returned for an upload without extension: it extracted
\* temp/u1_audio.wav and deleted it, and the upload is still there.
C28_Witness ==
  /\ call.fn = "transcribeFile" /\ call.pc = "returned"
  /\ call.filePath = <<"temp", "/", "u1">>
  /\ call.extracted = { <<"temp", "/", "u1", "_audio", ".", "wav">> }
  /\ call.deleted = call.extracted
  /\ DOMAIN call.fs = {call.filePath}

\* ------------------------------------------------------------------ C30
\* What a request lacks: the video file (both video endpoints), valid JSON in
\* its translatedSegments field, or text or targetLanguage (translate).
LacksRequiredInput(h) ==
  \/ h.handler \in {"transcribe", "generate"} /\ ~h.file
  \/ h.handler = "generate" /\ h.body.kind = "string" /\ h.body.text # ""
       /\ JSONparse(h.body.text).threw
  \/ h.handler = "translate" /\ (h.body.text = "" \/ h.body.targetLanguage = "")

\* C30: a request that lacks a required input is answered with status 400,
\* that is all its handler does: no service is invoked for it.
C30_InputCheckedBeforeServices ==
  \A r \in Requests :
    (http[r] # NoRequest /\ LacksRequiredInput(http[r])) =>
      /\ http[r].pc = "done"
      /\ http[r].responses = << [status |-> 400, download |-> NoPath] >>
      /\ http[r].trace = <<"respond">>

\* A /generate-video request whose translatedSegments is not JSON and a
\* translate request without targetLanguage have both been answered 400.
C30_Witness ==
  /\ http[1] # NoRequest /\ http[1].handler = "generate" /\ http[1].file
  /\ http[1].body.kind = "string" /\ http[1].body.text = "[s,"
  /\ http[1].responses = << [status |-> 400, download |-> NoPath] >>
  /\ http[2] # NoRequest /\ http[2].handler = "translate"
  /\ http[2].body.text = "hello" /\ http[2].body.targetLanguage = ""
  /\ http[2].responses = << [status |-> 400, download |-> NoPath] >>

\* ------------------------------------------------------------------ C22
\* C22: in transcribeAndGenerateVideo the translations settle in any order,
\* and the list handed to the pipeline has the length and order of the
\* transcription: its k-th element has the start and end of the k-th
\* transcription segment, and as text what the translateText call for that
\* segment returned.
C22_TranslatedSegmentsKeepOrder ==
  \A r \in Requests :
    (http[r] # NoRequest /\ http[r].handler = "transcribe"
       /\ http[r].passed # << >> /\ http[r].settled # << >>) =>
      /\ Len(http[r].passed) = Len(http[r].transcription)
      /\ \A k \in DOMAIN http[r].passed :
           /\ http[r].passed[k].start = http[r].transcription[k].start
           /\ http[r].passed[k].end = http[r].transcription[k].end
           /\ \E j \in DOMAIN http[r].settled :
                /\ http[r].settled[j].k = k
                /\ http[r].settled[j].text = http[r].passed[k].text

\* The translation of the second segment settled before that of the first,
\* and the pipeline was invoked with "olá" at 0-2 s and "mundo" at 2-4 s.
C22_Witness ==
  \E r \in Requests :
    /\ http[r] # NoRequest /\ http[r].handler = "transcribe"
    /\ http[r].settled = << [k |-> 2, text |-> "mundo"], [k |-> 1, text |-> "olá"] >>
    /\ http[r].passed = << [start |-> 0, end |-> 2000, text |-> "olá"],
                           [start |-> 2000, end |-> 4000, text |-> "mundo"] >>

\* ------------------------------------------------------------------ C24
\* C24: when a video handler that received an upload has answered with
\* status 400 or 500 and has finished, the uploaded file no longer exists.
C24_UploadGoneAfterError ==
  \A r \in Requests :
    (http[r] # NoRequest /\ http[r].handler \in {"transcribe", "generate"}
       /\ http[r].file /\ http[r].pc = "done"
       /\ \E k \in DOMAIN http[r].responses : http[r].responses[k].status \in {400, 500}) =>
      ~existsSync(disk, http[r].path)

\* ------------------------------------------------------------------ C25
\* C25: a handler never sends a second response, and when it has finished
\* it has sent one.
C25_ExactlyOneResponse ==
  \A r \in Requests :
    http[r] # NoRequest =>
      /\ Len(http[r].responses) <= 1
      /\ http[r].pc \in {"done", "timer"} => Len(http[r].responses) = 1

\* ------------------------------------------------------------------ C26
\* C26: the file a /transcribe answer's download URL names holds the video
\* rendered for that very request, whatever other requests do.
C26_DownloadIsOwnRender ==
  \A r \in Requests :
    (http[r] # NoRequest /\ http[r].handler = "transcribe") =>
      \A k \in DOMAIN http[r].responses :
        http[r].responses[k].status = 200 =>
          /\ existsSync(disk, http[r].responses[k].download)
          /\ disk[http[r].responses[k].download].request = r

\* ------------------------------------------------------------------ C21
\* The render of request r succeeded: the handler holds result.outputPath.
RenderSucceeded(r) == http[r] # NoRequest /\ http[r].outputPath # NoPath

\* The response of request r has been sent.
Responded(r) == http[r] # NoRequest /\ http[r].responses # << >>

\* Neither the upload nor the rendered output of request r exists.
BothFilesGone(r) ==
  /\ RenderSucceeded(r)
  /\ ~existsSync(disk, http[r].path)
  /\ ~existsSync(disk, http[r].outputPath)

\* C21: after a successful render the controller eventually has deleted both
\* the uploaded file and the rendered output file, and as long as no response
\* has been sent both files are still there.
C21_BothFilesDeletedAfterResponse ==
  /\ \A r \in Requests :
       RenderSucceeded(r) ~> BothFilesGone(r)
  /\ [](\A r \in Requests :
          (RenderSucceeded(r) /\ ~Responded(r)) =>
            (existsSync(disk, http[r].path) /\ existsSync(disk, http[r].outputPath)))

====
